---- MODULE Spec2Model ----
(***************************************************************************)
(* A model of the toy blockDAG of src/main.rs: the ToyDag store (blocks,   *)
(* tips, next_id, selected_parent), its reachability queries future_set    *)
(* and past_set, the colouring done by create_block, the tip update, the   *)
(* selected-parent choice and the StitchBot (stitch_if_needed).            *)
(*                                                                         *)
(* A Rust panic (the assert! of create_block, or the unchecked index       *)
(* self.blocks[&current] of past_set) ends the process: the model records  *)
(* it in `outcome`, sets `halted`, and keeps the fields as they were at    *)
(* the moment of the panic.                                                *)
(***************************************************************************)
EXTENDS Integers, Sequences, FiniteSets, TLC

\* ---- program constants -------------------------------------------------
K == 15
STITCH_THRESHOLD == 10
\* the driver gives a block at most three parents
DRIVER_PARENTS == 3
\* the driver runs 100 iterations and calls the StitchBot every fifth
DRIVER_ITERATIONS == 100
DRIVER_STITCH_EVERY == 5

\* ---- bounds of the model -----------------------------------------------
\* Spec: create_block is enabled while next_id < MaxBlocks.
MaxBlocks == 3
\* SpecWide: create_block is enabled while next_id < MaxWideBlocks.
MaxWideBlocks == 14
\* SpecDriver: the driver loop runs while next_id < MaxDriverBlocks.
MaxDriverBlocks == 12

VARIABLES
    blocks,           \* ToyDag.blocks: id -> Block
    tips,             \* ToyDag.tips
    next_id,          \* ToyDag.next_id
    selected_parent,  \* ToyDag.selected_parent
    op,               \* the last operation called: "new", "create_block", "stitch_if_needed"
    args,             \* the parent list the last create_block was called with
    outcome,          \* "ok", "noop", "panic_assert" or "panic_index"
    ret,              \* {id} when the last operation created block id, else {}
    halted,           \* TRUE once the process has panicked
    loop_tips,        \* the values self.tips had during the last call's loop over parent_ids
    iter              \* main's loop variable i: the iterations the driver has started

dagvars == <<blocks, tips, next_id, selected_parent>>
vars == <<blocks, tips, next_id, selected_parent, op, args, outcome, ret, halted,
          loop_tips, iter>>

Range(s) == {s[i] : i \in 1..Len(s)}

\* struct Block
Block(id, parents, color) == [id |-> id, parents |-> parents, color |-> color]

\* ToyDag::new with selected_parent set from next_id instead of the genesis id
ToyDagNew_selected_next_id ==
    [blocks |-> (0 :> Block(0, <<>>, "Blue")),
     tips |-> {0},
     next_id |-> 1,
     selected_parent |-> 1]

\* ToyDag::new: genesis is block 0, Blue, without parents
ToyDagNew ==
    [blocks |-> (0 :> Block(0, <<>>, "Blue")),
     tips |-> {0},
     next_id |-> 1,
     selected_parent |-> 0]

\* ---- reachability -------------------------------------------------------
\* future_set: worklist traversal; a popped block's children are the recorded
\* blocks whose parent list contains it. The result does not depend on the
\* order in which the worklist is popped.
RECURSIVE future_loop(_, _, _)
future_loop(B, future, queue) ==
    IF queue = {} THEN future
    ELSE LET current == CHOOSE q \in queue : TRUE
             fresh == {c \in DOMAIN B :
                          current \in Range(B[c].parents) /\ c \notin future}
         IN future_loop(B, future \cup fresh, (queue \ {current}) \cup fresh)

future_set(B, block_id) == future_loop(B, {block_id}, {block_id})

\* The value that stands for the panic of an unchecked self.blocks[&current].
IndexPanic == {-1}

\* past_set: worklist traversal along parents; looking up a popped id that is
\* not recorded panics.
RECURSIVE past_loop(_, _, _)
past_loop(B, past, queue) ==
    IF queue = {} THEN past
    ELSE LET current == CHOOSE q \in queue : TRUE
         IN IF current \notin DOMAIN B THEN IndexPanic
            ELSE LET fresh == Range(B[current].parents) \ past
                 IN past_loop(B, past \cup fresh, (queue \ {current}) \cup fresh)

past_set(B, block_id) == past_loop(B, {block_id}, {block_id})

\* ---- colouring ----------------------------------------------------------
\* anticone_size: |future_set(block) \ future_set(reference)| - 1 in usize.
\* A count of 0 underflows: the result -1 stands for that (a debug build
\* panics, a release build wraps to usize::MAX).
anticone_size(B, block_id, reference_id) ==
    Cardinality(future_set(B, block_id) \ future_set(B, reference_id)) - 1

\* the k-cluster rule with its comparison turned around
Classify_flipped(anticone) ==
    IF anticone >= 0 /\ anticone <= K THEN "Red" ELSE "Blue"

\* the k-cluster rule of create_block, on the anticone size (a wrapped
\* usize::MAX is above K)
Classify(anticone) ==
    IF anticone >= 0 /\ anticone <= K THEN "Blue" ELSE "Red"

\* ---- tips ---------------------------------------------------------------
\* the loop body with the guard len() > 2: the last two tips are kept
tips_step_keep_two(T, pid) ==
    IF Cardinality(T) > 2 \/ pid \notin T THEN T \ {pid} ELSE T

\* the loop body without its guard: every parent is removed
tips_step_always_remove(T, pid) == T \ {pid}

\* one pass of the loop body: a parent is removed unless it is the only tip
tips_step(T, pid) ==
    IF Cardinality(T) > 1 \/ pid \notin T THEN T \ {pid} ELSE T

\* the loop over parent_ids run from the end of the list
RECURSIVE tips_loop_reversed(_, _)
tips_loop_reversed(T, parent_ids) ==
    IF parent_ids = <<>> THEN T
    ELSE tips_loop_reversed(tips_step(T, parent_ids[Len(parent_ids)]),
                            SubSeq(parent_ids, 1, Len(parent_ids) - 1))

\* the loop over parent_ids, in the order of the list
RECURSIVE tips_loop(_, _)
tips_loop(T, parent_ids) ==
    IF parent_ids = <<>> THEN T
    ELSE tips_loop(tips_step(T, Head(parent_ids)), Tail(parent_ids))

\* the values self.tips has before the loop and after each of its passes
tips_steps(T, parent_ids) ==
    {tips_loop(T, SubSeq(parent_ids, 1, n)) : n \in 0..Len(parent_ids)}

\* a tip update that makes the new block the only tip
UpdateTips_replace(T, parent_ids, id) == {id}

\* a tip update without self.tips.insert(id)
UpdateTips_no_insert(T, parent_ids, id) == tips_loop(T, parent_ids)

UpdateTips(T, parent_ids, id) == tips_loop(T, parent_ids) \cup {id}

\* ---- selected parent ----------------------------------------------------
blue_tips(B, T) == {t \in T : B[t].color = "Blue"}

\* max_by_key evaluates past_set of every blue tip: one panic is a panic
selected_parent_panics(B, T) ==
    \E t \in blue_tips(B, T) : past_set(B, t) = IndexPanic

\* update_selected_parent with min_by_key: a lightest blue tip
update_selected_parent_lightest(B, T, sp) ==
    IF blue_tips(B, T) = {} THEN {sp}
    ELSE {t \in blue_tips(B, T) :
             \A u \in blue_tips(B, T) :
                 Cardinality(past_set(B, t)) <= Cardinality(past_set(B, u))}

\* update_selected_parent without max_by_key: some blue tip
update_selected_parent_any(B, T, sp) ==
    IF blue_tips(B, T) = {} THEN {sp} ELSE blue_tips(B, T)

\* update_selected_parent with the number of parents as the key
update_selected_parent_most_parents(B, T, sp) ==
    IF blue_tips(B, T) = {} THEN {sp}
    ELSE {t \in blue_tips(B, T) :
             \A u \in blue_tips(B, T) : Len(B[u].parents) <= Len(B[t].parents)}

\* update_selected_parent: the values selected_parent may have afterwards.
\* max_by_key returns a maximal element of a Vec collected in the HashSet's
\* iteration order, so any blue tip with a largest past set may be chosen.
update_selected_parent(B, T, sp) ==
    IF blue_tips(B, T) = {} THEN {sp}
    ELSE {t \in blue_tips(B, T) :
             \A u \in blue_tips(B, T) :
                 Cardinality(past_set(B, u)) <= Cardinality(past_set(B, t))}

\* ---- create_block -------------------------------------------------------
\* the result of one call: the store afterwards, how the call ended, and
\* the id it returned
Result(b, t, n, sp, o, r) ==
    [blocks |-> b, tips |-> t, next_id |-> n, selected_parent |-> sp,
     outcome |-> o, ret |-> r]

\* assert!(!parent_ids.is_empty()) fails before anything is written
assert_failed(d) ==
    Result(d.blocks, d.tips, d.next_id, d.selected_parent, "panic_assert", {})

\* self.next_id += 1 left out
next_after_same(id) == id

\* self.next_id += 1, on the id just taken
next_after(id) == id + 1

\* recording a block and turning its recorded parents Red
record_block_recolor(B, id, parent_ids, color) ==
    [b \in DOMAIN B \cup {id} |->
        IF b = id THEN Block(id, parent_ids, color)
        ELSE IF b \in Range(parent_ids) THEN [B[b] EXCEPT !.color = "Red"]
        ELSE B[b]]

\* self.blocks.insert(id, block)
record_block(B, id, parent_ids, color) ==
    (id :> Block(id, parent_ids, color)) @@ B

\* create_block past its assertion: the set of results the call can have
create_block_body(d, parent_ids) ==
    LET id == d.next_id
        anticone == anticone_size(d.blocks, id, d.selected_parent)
        color == Classify(anticone)
        B2 == record_block(d.blocks, id, parent_ids, color)
        T2 == UpdateTips(d.tips, parent_ids, id)
    IN  (IF anticone < 0
         THEN {Result(d.blocks, d.tips, next_after(id), d.selected_parent, "panic_overflow", {})}
         ELSE {})
        \cup
        (IF selected_parent_panics(B2, T2)
         THEN {Result(B2, T2, next_after(id), d.selected_parent, "panic_index", {})}
         ELSE {Result(B2, T2, next_after(id), sp, "ok", {id}) :
                  sp \in update_selected_parent(B2, T2, d.selected_parent)})

\* create_block with the assertion placed after the id allocation
create_block_assert_after_alloc(d, parent_ids) ==
    IF parent_ids = <<>>
    THEN {Result(d.blocks, d.tips, next_after(d.next_id), d.selected_parent,
                 "panic_assert", {})}
    ELSE create_block_body(d, parent_ids)

create_block(d, parent_ids) ==
    IF parent_ids = <<>> THEN {assert_failed(d)}
    ELSE create_block_body(d, parent_ids)

\* ---- stitch_if_needed ---------------------------------------------------
RECURSIVE SortedSeq(_)
SortedSeq(S) ==
    IF S = {} THEN <<>>
    ELSE LET m == CHOOSE x \in S : \A y \in S : x <= y
         IN <<m>> \o SortedSeq(S \ {m})

\* all_tips cut to three tips, as the driver cuts its parent lists
all_tips_three(T) ==
    {SubSeq(SortedSeq(T \ {last}) \o <<last>>, Cardinality(T) - 2, Cardinality(T)) :
        last \in T}

\* all_tips: self.tips collected in the HashSet's iteration order. The order
\* reaches the store only through the tip update, which keeps the last tip
\* of the list; future_set uses contains() and past_set the set of parents.
\* One order per choice of the last tip is enumerated.
all_tips(T) == {SortedSeq(T \ {last}) \o <<last>> : last \in T}

\* stitch_if_needed with >= for >
stitch_if_needed_ge(d) ==
    IF Cardinality(d.tips) >= STITCH_THRESHOLD
    THEN UNION {create_block(d, parent_ids) : parent_ids \in all_tips(d.tips)}
    ELSE {Result(d.blocks, d.tips, d.next_id, d.selected_parent, "noop", {})}

\* the set of results of stitch_if_needed
stitch_if_needed(d) ==
    IF Cardinality(d.tips) > STITCH_THRESHOLD
    THEN UNION {create_block(d, parent_ids) : parent_ids \in all_tips(d.tips)}
    ELSE {Result(d.blocks, d.tips, d.next_id, d.selected_parent, "noop", {})}

\* ---- the state machine --------------------------------------------------
Dag == [blocks |-> blocks, tips |-> tips, next_id |-> next_id,
        selected_parent |-> selected_parent]

Init ==
    /\ blocks = ToyDagNew.blocks
    /\ tips = ToyDagNew.tips
    /\ next_id = ToyDagNew.next_id
    /\ selected_parent = ToyDagNew.selected_parent
    /\ op = "new"
    /\ args = <<>>
    /\ outcome = "ok"
    /\ ret = {}
    /\ halted = FALSE
    /\ loop_tips = {}
    /\ iter = 0

Apply(r) ==
    /\ blocks' = r.blocks
    /\ tips' = r.tips
    /\ next_id' = r.next_id
    /\ selected_parent' = r.selected_parent
    /\ outcome' = r.outcome
    /\ ret' = r.ret
    /\ halted' = (r.outcome \notin {"ok", "noop"})
    /\ loop_tips' = IF next_id \in DOMAIN r.blocks \ DOMAIN blocks
                    THEN tips_steps(tips, r.blocks[next_id].parents)
                    ELSE {}

\* a caller's create_block(parent_ids)
CreateBlock(parent_ids) ==
    /\ ~halted
    /\ op' = "create_block"
    /\ args' = parent_ids
    /\ \E r \in create_block(Dag, parent_ids) : Apply(r)

\* a caller's stitch_if_needed()
StitchIfNeeded(cap) ==
    /\ ~halted
    /\ op' = "stitch_if_needed"
    /\ args' = <<>>
    /\ \E r \in stitch_if_needed(Dag) :
           /\ r.outcome # "noop" => next_id < cap
           /\ Apply(r)

\* Spec: the parent lists of at most DRIVER_PARENTS ids, known or not (the ids
\* next_id and next_id + 1 are not recorded when the call is made), that
\* name distinct ids or one id twice
ParentLists ==
    {s \in UNION {[1..n -> 0..(next_id + 1)] : n \in 0..DRIVER_PARENTS} :
        \/ \A i, j \in 1..Len(s) : s[i] = s[j] => i = j
        \/ Len(s) = 2 /\ s[1] = s[2]}

Insert ==
    /\ next_id < MaxBlocks
    /\ \E parent_ids \in ParentLists : CreateBlock(parent_ids)
    /\ UNCHANGED iter

Stitch == StitchIfNeeded(MaxBlocks) /\ UNCHANGED iter

Next == Insert \/ Stitch

Spec == Init /\ [][Next]_vars

\* SpecWide: single-parent blocks on genesis or on the latest block, up to
\* MaxWideBlocks blocks: fans wider than STITCH_THRESHOLD and chains
WideParentLists == {<<0>>, <<next_id - 1>>}

InsertWide ==
    /\ next_id < MaxWideBlocks
    /\ \E parent_ids \in WideParentLists : CreateBlock(parent_ids)
    /\ UNCHANGED iter

StitchWide == StitchIfNeeded(MaxWideBlocks) /\ UNCHANGED iter

NextWide == InsertWide \/ StitchWide

SpecWide == Init /\ [][NextWide]_vars

\* the driver choosing its parents among all recorded blocks
DriverParentLists_any_block ==
    LET num_parents == IF Cardinality(tips) < DRIVER_PARENTS
                       THEN Cardinality(tips) ELSE DRIVER_PARENTS
    IN {s \in [1..num_parents -> DOMAIN blocks] :
           \A m, n \in 1..num_parents : s[m] = s[n] => m = n}

\* SpecDriver: main's loop. An iteration calls create_block with
\* min(|tips|, DRIVER_PARENTS) tips, which choose_multiple picks in any
\* order, and every DRIVER_STITCH_EVERY-th iteration then calls
\* stitch_if_needed.
DriverParentLists ==
    LET num_parents == IF Cardinality(tips) < DRIVER_PARENTS
                       THEN Cardinality(tips) ELSE DRIVER_PARENTS
    IN {s \in [1..num_parents -> tips] : \A m, n \in 1..num_parents : s[m] = s[n] => m = n}

\* the stitch_if_needed of the current iteration is still to be called
StitchDue == op = "create_block" /\ iter % DRIVER_STITCH_EVERY = 0

DriverInsert ==
    /\ iter < DRIVER_ITERATIONS
    /\ next_id < MaxDriverBlocks
    /\ ~StitchDue
    /\ iter' = iter + 1
    /\ \E parent_ids \in DriverParentLists : CreateBlock(parent_ids)

DriverStitch ==
    /\ StitchDue
    /\ StitchIfNeeded(MaxDriverBlocks + 1)
    /\ UNCHANGED iter

NextDriver == DriverInsert \/ DriverStitch

SpecDriver == Init /\ [][NextDriver]_vars

\* ---- properties ---------------------------------------------------------

\* C1 (as claimed): a create_block whose parent list names an id that is not
\* recorded fails on the unknown block and leaves blocks, tips, next_id and
\* selected_parent as they were.
C1_UnknownParentLeavesStore ==
    [][(op' = "create_block" /\ args' # <<>>
          /\ \E i \in 1..Len(args') : args'[i] \notin DOMAIN blocks)
       => (outcome' = "panic_index" /\ UNCHANGED dagvars)]_vars

\* C2: a create_block with an empty parent list fails on its assertion and
\* leaves blocks, tips, next_id and selected_parent as they were.
C2_EmptyParentsLeavesStore ==
    [][(op' = "create_block" /\ args' = <<>>)
       => (outcome' = "panic_assert" /\ UNCHANGED dagvars)]_vars

C2_Witness == op = "create_block" /\ outcome = "panic_assert" /\ next_id > 1

\* C3: every recorded block is Blue; whenever a block can still be created,
\* the candidate id has the future set {candidate} and anticone size 0
\* against the selected parent, so it is Blue for every K >= 0.
C3_EveryBlockBlue ==
    /\ \A b \in DOMAIN blocks : blocks[b].color = "Blue"
    /\ ~halted =>
          /\ future_set(blocks, next_id) = {next_id}
          /\ Cardinality({next_id} \ future_set(blocks, selected_parent)) = 1
          /\ anticone_size(blocks, next_id, selected_parent) = 0

\* a second insertion, with two parents, has been classified
C3_Witness ==
    /\ ~halted /\ op = "create_block" /\ outcome = "ok" /\ ret = {2}
    /\ Len(args) = 2 /\ blocks[2].color = "Blue"

\* C4: the selected parent is a recorded block and is Blue.
C4_SelectedParentRecordedBlue ==
    /\ selected_parent \in DOMAIN blocks
    /\ blocks[selected_parent].color = "Blue"

C4_Witness == op = "create_block" /\ outcome = "ok" /\ selected_parent > 1

\* C5 (as claimed): no recorded block names a tip as a parent.
C5_TipsHaveNoChildren ==
    \A t \in tips : \A b \in DOMAIN blocks : t \notin Range(blocks[b].parents)

\* C6: the recorded ids are exactly 0 .. next_id - 1, each block is recorded
\* under its own id, and a successful insertion returns the id one above the
\* largest id recorded before it, which was not recorded before.
C6_IdsSequential ==
    /\ [](DOMAIN blocks = 0..(next_id - 1) /\ \A b \in DOMAIN blocks : blocks[b].id = b)
    /\ [][(outcome' = "ok" /\ ret' # {})
           => /\ \A r \in ret' : /\ r \notin DOMAIN blocks
                                  /\ r \in DOMAIN blocks'
                                  /\ \A b \in DOMAIN blocks : b < r
                                  /\ r - 1 \in DOMAIN blocks
              /\ next_id' = next_id + 1]_vars

C6_Witness == outcome = "ok" /\ ret = {2} /\ next_id = 3

\* C7: the id a successful insertion returns is a tip, and a tip leaves the
\* tip set only in a step that records a block whose parent list contains it.
C7_TipUntilReferenced ==
    /\ []((outcome = "ok" /\ ret # {}) => ret \subseteq tips)
    /\ [][\A n \in tips :
             n \notin tips' =>
                /\ next_id \in DOMAIN blocks' \ DOMAIN blocks
                /\ n \in Range(blocks'[next_id].parents)]_vars

\* a block inserted earlier is still a tip after a later insertion
C7_Witness ==
    /\ outcome = "ok" /\ ret # {}
    /\ \E n \in tips : n > 0 /\ n + 1 < next_id /\ n \notin Range(args)

\* C8: a stitch_if_needed called with more than STITCH_THRESHOLD tips
\* records exactly one new block, whose parents are the tips as they were
\* before the call, each once, and the new block is a tip afterwards.
C8_StitchMergesAllTips ==
    [][(op' = "stitch_if_needed" /\ Cardinality(tips) > STITCH_THRESHOLD)
       => /\ DOMAIN blocks' = DOMAIN blocks \cup {next_id}
          /\ next_id \notin DOMAIN blocks
          /\ \A b \in DOMAIN blocks : blocks'[b] = blocks[b]
          /\ Range(blocks'[next_id].parents) = tips
          /\ Len(blocks'[next_id].parents) = Cardinality(tips)
          /\ next_id \in tips'
          /\ ret' = {next_id}]_vars

C8_Witness ==
    /\ op = "stitch_if_needed" /\ outcome = "ok" /\ ret # {}
    /\ \A r \in ret : r \in tips /\ Len(blocks[r].parents) > STITCH_THRESHOLD

\* C9: a stitch_if_needed called with at most STITCH_THRESHOLD tips changes
\* none of blocks, tips, next_id and selected_parent.
C9_StitchNoOp ==
    [][(op' = "stitch_if_needed" /\ Cardinality(tips) <= STITCH_THRESHOLD)
       => (outcome' = "noop" /\ UNCHANGED dagvars)]_vars

C9_Witness ==
    op = "stitch_if_needed" /\ outcome = "noop" /\ Cardinality(tips) = STITCH_THRESHOLD

\* the recorded blocks form one chain from genesis
IsChain == \A i \in 1..(next_id - 1) : i \in DOMAIN blocks /\ blocks[i].parents = <<i - 1>>

\* C10: while the store is a chain built from genesis, the selected parent
\* is the block inserted last.
C10_ChainSelectsLatest ==
    (~halted /\ next_id > 1 /\ IsChain) => selected_parent = next_id - 1

C10_Witness == ~halted /\ IsChain /\ next_id = 6 /\ ret = {5} /\ selected_parent = 5

\* C11 (as claimed): every recorded block is in its own future set and in
\* its own past set.
C11_ClosuresReflexive ==
    \A b \in DOMAIN blocks :
        b \in future_set(blocks, b) /\ b \in past_set(blocks, b)

\* C12 (as claimed): a recorded child is in the future set of each of its
\* recorded parents and has them in its past set, and for recorded blocks a
\* and b, b is in future_set(a) exactly when a is in past_set(b).
C12_ClosuresDual ==
    \A a, b \in DOMAIN blocks :
        /\ a \in Range(blocks[b].parents) =>
              b \in future_set(blocks, a) /\ a \in past_set(blocks, b)
        /\ b \in future_set(blocks, a) <=> a \in past_set(blocks, b)

\* C13: after a successful insertion, and in every state in which the
\* process runs, the selected parent is a tip, is Blue, and no Blue tip has
\* a larger past set.
C13_SelectedParentHeaviestBlueTip ==
    ~halted =>
        /\ selected_parent \in tips
        /\ blocks[selected_parent].color = "Blue"
        /\ \A t \in blue_tips(blocks, tips) :
               Cardinality(past_set(blocks, t))
                   <= Cardinality(past_set(blocks, selected_parent))

\* an insertion left a lighter Blue tip beside the selected parent
C13_Witness ==
    /\ outcome = "ok" /\ ret # {}
    /\ \E t \in blue_tips(blocks, tips) :
           Cardinality(past_set(blocks, t))
               < Cardinality(past_set(blocks, selected_parent))

Distinct(s) == \A m, n \in 1..Len(s) : s[m] = s[n] => m = n

\* the tip that comes last in the list P
LastTipIn(T, P) ==
    P[CHOOSE n \in 1..Len(P) :
          P[n] \in T /\ \A m \in (n + 1)..Len(P) : P[m] \notin T]

\* C14: a successful insertion of a list P of distinct ids into the tip set
\* T leaves (T \ P) plus the new id when some tip is not in P, and the new
\* id plus the tip that comes last in P when every tip is in P.
C14_TipUpdateClosedForm ==
    [][(outcome' = "ok" /\ ret' # {} /\ next_id \in DOMAIN blocks')
       => LET P == blocks'[next_id].parents
          IN Distinct(P) =>
                tips' = IF tips \ Range(P) # {}
                        THEN (tips \ Range(P)) \cup {next_id}
                        ELSE {LastTipIn(tips, P), next_id}]_vars

\* both tips were named, the one named last was kept
C14_Witness ==
    /\ op = "create_block" /\ outcome = "ok" /\ args = <<1, 0>>
    /\ tips = {0, 2}

\* C15: a stitch_if_needed called with more than STITCH_THRESHOLD tips
\* leaves exactly two tips: the merge block and one of the tips it had
\* before.
C15_StitchLeavesTwoTips ==
    [][(op' = "stitch_if_needed" /\ Cardinality(tips) > STITCH_THRESHOLD)
       => /\ next_id \in tips'
          /\ Cardinality(tips') = 2
          /\ Cardinality(tips' \cap tips) = 1]_vars

C15_Witness ==
    /\ op = "stitch_if_needed" /\ outcome = "ok"
    /\ Cardinality(tips) = 2 /\ ret \subseteq tips /\ ret # {}
    /\ \E t \in tips : \E r \in ret : t \in Range(blocks[r].parents)

\* C16: a step leaves every recorded block as it was and records at most
\* one block, under the id next_id, which was not recorded; a successful
\* insertion records exactly that one.
C16_BlocksImmutable ==
    [][/\ \A b \in DOMAIN blocks : b \in DOMAIN blocks' /\ blocks'[b] = blocks[b]
       /\ (DOMAIN blocks' \ DOMAIN blocks) \subseteq {next_id}
       /\ (outcome' = "ok" /\ ret' # {}) =>
             /\ next_id \notin DOMAIN blocks
             /\ DOMAIN blocks' = DOMAIN blocks \cup {next_id}]_vars

\* block 1 was named as a parent by block 2 and is as it was recorded
C16_Witness ==
    /\ outcome = "ok" /\ ret = {2}
    /\ 1 \in Range(blocks[2].parents)
    /\ blocks[1].id = 1 /\ blocks[1].color = "Blue"

\* C17: the tip set is not empty, and it was not empty before, between and
\* after the passes of the last insertion's loop over its parents.
C17_TipsNeverEmpty ==
    /\ tips # {}
    /\ \A T \in loop_tips : T # {}

\* the last insertion named every tip, and there were two
C17_Witness ==
    /\ outcome = "ok" /\ ret # {}
    /\ \E T \in loop_tips : Cardinality(T) = 2 /\ T \subseteq Range(args)
    /\ \E T \in loop_tips : Cardinality(T) = 1

\* no recorded block names b as a parent
Childless(b) == \A c \in DOMAIN blocks : b \notin Range(blocks[c].parents)

\* C18: every recorded block that no recorded block names as a parent is a
\* tip.
C18_TipsComplete ==
    \A b \in DOMAIN blocks : Childless(b) => b \in tips

C18_Witness ==
    /\ 0 \notin tips
    /\ \E b, c \in DOMAIN blocks :
           b # c /\ Childless(b) /\ Childless(c) /\ b \in tips /\ c \in tips

\* C19: no step makes the past set of the selected parent smaller.
C19_SelectedPastNeverShrinks ==
    [][Cardinality(past_set(blocks', selected_parent'))
          >= Cardinality(past_set(blocks, selected_parent))]_vars

\* the selected parent moved to the block inserted last, three deep
C19_Witness ==
    /\ op = "create_block" /\ outcome = "ok"
    /\ ret = {selected_parent}
    /\ Cardinality(past_set(blocks, selected_parent)) >= 4

\* C20: under the driver loop there are exactly two tips after every
\* insertion, never more than STITCH_THRESHOLD, and no stitch_if_needed
\* call records a block.
C20_DriverKeepsTwoTips ==
    /\ []((~halted /\ next_id > 1) => Cardinality(tips) = 2)
    /\ [](Cardinality(tips) <= STITCH_THRESHOLD)
    /\ [][op' = "stitch_if_needed" => (outcome' = "noop" /\ UNCHANGED dagvars)]_vars

\* the second stitch_if_needed call of the driver has returned
C20_Witness ==
    /\ op = "stitch_if_needed" /\ outcome = "noop"
    /\ iter = 2 * DRIVER_STITCH_EVERY /\ Cardinality(tips) = 2

====
